---- MODULE Spec2Model ----
(***************************************************************************)
(* Model of autoimpute/utils/patterns.py: the pairwise missing-data        *)
(* statistics (md_pairs), the row pattern table (md_pattern) and the       *)
(* connectivity coefficients (inbound, outbound, influx, outflux, flux).   *)
(*                                                                         *)
(* A dataset is a sequence of n rows, each a sequence of p cells; a cell   *)
(* is "NA" (missing) or "x" (a value).  numpy booleans are modelled by the *)
(* integers 0 and 1 they behave as in arithmetic.  A float is the exact    *)
(* fraction [num, den] in lowest terms; den = 0 stands for the IEEE        *)
(* results of a division by zero: 0/0 is NaN and x/0 (x > 0) is inf.       *)
(*                                                                         *)
(* The functions are pure, so a behaviour is one call: data is the         *)
(* caller's dataset, call names the function called ("none" before the     *)
(* call) and ret is what the call ended in, a value or a raised error.     *)
(***************************************************************************)
EXTENDS Integers, Sequences, FiniteSets, TLC

VARIABLES data, call, ret

vars == <<data, call, ret>>

\* ---- bounds of the model ------------------------------------------------
MaxRows == 3
MaxCols == 3
MaxCells == 9

\* ---- inputs ---------------------------------------------------------------
Cells == {"NA", "x"}

Labels == <<"A", "B", "C", "D", "E", "F">>

None == <<"None">>

\* the positional labels used when no labels are given
Positional == <<"0", "1", "2", "3", "4", "5">>

\* the shapes (n, p) of the datasets tried: at most MaxCells cells
Shapes ==
  {s \in (1..MaxRows) \X (1..MaxCols) : s[1] * s[2] <= MaxCells}

Datasets == UNION {[1..s[1] -> [1..s[2] -> Cells]] : s \in Shapes}

nrows(d) == Len(d)

ncols(d) == Len(d[1])

\* the labels a caller names the p columns with
ColNames(p) == SubSeq(Labels, 1, p)

\* ---- generic helpers ------------------------------------------------------
RECURSIVE SumTo(_, _)
SumTo(f, n) == IF n = 0 THEN 0 ELSE f[n] + SumTo(f, n - 1)

\* sum of the entries of a sequence of integers
Sum(s) == SumTo(s, Len(s))

RECURSIVE GCD(_, _)
GCD(a, b) == IF b = 0 THEN a ELSE GCD(b, a % b)

NaN == [num |-> 0, den |-> 0]

Inf == [num |-> 1, den |-> 0]

Zero == [num |-> 0, den |-> 1]

One == [num |-> 1, den |-> 1]

IsNaN(x) == x.den = 0 /\ x.num = 0

\* a / b for non-negative integers under errstate(divide, invalid = ignore)
Div(a, b) ==
  IF b = 0 THEN (IF a = 0 THEN NaN ELSE Inf)
  ELSE LET g == GCD(a, b) IN [num |-> a \div g, den |-> b \div g]

\* x + y on floats (NaN and inf propagate)
FAdd(x, y) ==
  IF IsNaN(x) \/ IsNaN(y) THEN NaN
  ELSE IF x.den = 0 \/ y.den = 0 THEN Inf
  ELSE Div(x.num * y.den + y.num * x.den, x.den * y.den)

\* x / k for a float x and an integer k >= 0
FDivInt(x, k) ==
  IF IsNaN(x) THEN NaN
  ELSE IF x.den = 0 THEN Inf
  ELSE Div(x.num, x.den * k)

\* x <= y on finite floats
FLeq(x, y) == x.num * y.den <= y.num * x.den

\* np.nansum of a sequence of floats: NaN entries count as zero
RECURSIVE nansumTo(_, _)
nansumTo(row, n) ==
  IF n = 0 THEN Zero
  ELSE FAdd(IF IsNaN(row[n]) THEN Zero ELSE row[n], nansumTo(row, n - 1))

nansum(row) == nansumTo(row, Len(row))

\* ---- collaborators (helpers.py, checks.py) --------------------------------
\* _is_null: same-shaped indicator, 1 where the cell is missing
_is_null(d) == [i \in 1..nrows(d) |-> [j \in 1..ncols(d) |->
                  IF d[i][j] = "NA" THEN 1 ELSE 0]]

\* check_dimensions: TRUE when the decorated function may run
check_dimensions(d, cols) ==
  /\ ncols(d) >= 2
  /\ cols # None => Len(cols) = ncols(d)

\* _pattern_output: attaches labels, leaves the values alone
_pattern_output(values, cols, square) ==
  LET names == IF cols = None THEN SubSeq(Positional, 1, Len(values[1]))
               ELSE cols
  IN [values |-> values,
      columns |-> names,
      index |-> IF square THEN names ELSE SubSeq(Positional, 1, Len(values))]

DimensionError == [raised |-> "DimensionError"]

Returned(v) == [raised |-> "none", value |-> v]

\* ---- md_pairs ------------------------------------------------------------
\* np.logical_not(arr)*1
int_ln(arr) == [i \in 1..Len(arr) |-> [j \in 1..Len(arr[1]) |->
                 IF arr[i][j] = 0 THEN 1 ELSE 0]]

\* np.matmul(a.T, b) for n x p matrices a and b
matmulT(a, b) ==
  [j \in 1..Len(a[1]) |-> [k \in 1..Len(b[1]) |->
     Sum([i \in 1..Len(a) |-> a[i][j] * b[i][k]])]]

\* md_pairs with mm built from the observed indicator on one side
md_pairs_body_mm_slip(d, cols) ==
  LET r == int_ln(_is_null(d))
      rr == matmulT(r, r)
      mm == matmulT(int_ln(r), r)
      mr == matmulT(int_ln(r), r)
      rm == matmulT(r, int_ln(r))
  IN [rr |-> _pattern_output(rr, cols, TRUE),
      rm |-> _pattern_output(rm, cols, TRUE),
      mr |-> _pattern_output(mr, cols, TRUE),
      mm |-> _pattern_output(mm, cols, TRUE)]

\* the body of md_pairs, past the decorator
md_pairs_body(d, cols) ==
  LET r == int_ln(_is_null(d))
      rr == matmulT(r, r)
      mm == matmulT(int_ln(r), int_ln(r))
      mr == matmulT(int_ln(r), r)
      rm == matmulT(r, int_ln(r))
  IN [rr |-> _pattern_output(rr, cols, TRUE),
      rm |-> _pattern_output(rm, cols, TRUE),
      mr |-> _pattern_output(mr, cols, TRUE),
      mm |-> _pattern_output(mm, cols, TRUE)]

md_pairs(d, cols) ==
  IF check_dimensions(d, cols) THEN Returned(md_pairs_body(d, cols))
  ELSE DimensionError

\* ---- md_pattern ----------------------------------------------------------
\* the permutations of 1..n, as sequences
RECURSIVE PermsOf(_)
PermsOf(S) ==
  IF S = {} THEN {<<>>}
  ELSE UNION {{<<x>> \o q : q \in PermsOf(S \ {x})} : x \in S}

Perms(n) == PermsOf(1..n)

\* np.sum(r, axis=0)
colsum(r) == [j \in 1..Len(r[1]) |-> Sum([i \in 1..Len(r) |-> r[i][j]])]

\* the index arrays np.argsort(keys) may return: keys ascend along the
\* result; the default sort kind does not fix the order of equal keys
argsort(keys) ==
  {o \in Perms(Len(keys)) :
     \A i, j \in 1..Len(keys) : i < j => keys[o[i]] <= keys[o[j]]}

\* r[:, order]
take_cols(r, order) ==
  [i \in 1..Len(r) |-> [j \in 1..Len(order) |-> r[i][order[j]]]]

\* num_string: the digits of a row, one character each
num_string(row) == [j \in 1..Len(row) |-> row[j]]

\* string order of two equally long digit strings
StrLess(a, b) ==
  \E i \in 1..Len(a) : a[i] < b[i] /\ \A j \in 1..(i - 1) : a[j] = b[j]

\* np.argsort(pat) on the pattern strings (equal strings are equal rows)
RECURSIVE argsort_from(_, _)
argsort_from(pat, rest) ==
  IF rest = {} THEN <<>>
  ELSE LET m == CHOOSE i \in rest : \A j \in rest :
                  /\ ~StrLess(pat[j], pat[i])
                  /\ pat[j] = pat[i] => i <= j
       IN <<m>> \o argsort_from(pat, rest \ {m})

argsort_pat(pat) == argsort_from(pat, 1..Len(pat))

\* r[rows, :]
take_rows(r, rows) == [i \in 1..Len(rows) |-> r[rows[i]]]

\* the table without the grouping: one row of size 1 per dataset row
groupby_size_ungrouped(rows) ==
  [g \in 1..Len(rows) |-> [key |-> rows[g], size |-> 1]]

\* groupby(cols).size().reset_index(): one row per distinct key, keys
\* ascending, with the size of the group
RECURSIVE ascending(_)
ascending(keys) ==
  IF keys = {} THEN <<>>
  ELSE LET m == CHOOSE a \in keys : \A b \in keys : ~StrLess(b, a)
       IN <<m>> \o ascending(keys \ {m})

groupby_size(rows) ==
  LET sorted == ascending({rows[i] : i \in 1..Len(rows)})
  IN [g \in 1..Len(sorted) |->
        [key |-> sorted[g],
         size |-> Cardinality({i \in 1..Len(rows) : rows[i] = sorted[g]})]]

\* nmis summed over every row of the group instead of once
nmis_of_per_row(grp) == Sum(grp.key) * grp.size

\* sort_r_df["nmis"] = sort_r_df[cols].sum(axis=1) for one row
nmis_of(grp) == Sum(grp.key)

\* sort_r_df[cols].apply(np.logical_not)*1 for one row
flip(key) == [j \in 1..Len(key) |-> IF key[j] = 0 THEN 1 ELSE 0]

\* the body of md_pattern, past the decorator; order is the result of
\* np.argsort(nmis).  vars[i] is the cell under the label columns[i + 1].
md_pattern_body(d, cols, order) ==
  LET r0 == _is_null(d)
      r == take_cols(r0, order)
      pat == [i \in 1..Len(r) |-> num_string(r[i])]
      sort_r == take_rows(r, argsort_pat(pat))
      sort_r_df == _pattern_output(sort_r, cols, FALSE)
      grouped == groupby_size(sort_r_df.values)
  IN [columns |-> <<"count">> \o cols \o <<"nmis">>,
      rows |-> [g \in 1..Len(grouped) |->
                  [count |-> grouped[g].size,
                   vars |-> flip(grouped[g].key),
                   nmis |-> nmis_of(grouped[g])]]]

md_pattern(d, cols, order) ==
  IF check_dimensions(d, cols) THEN Returned(md_pattern_body(d, cols, order))
  ELSE DimensionError

\* ---- connectivity coefficients --------------------------------------------
\* a + b, element-wise, on integer matrices
MatAdd(a, b) ==
  [j \in 1..Len(a) |-> [k \in 1..Len(a[j]) |-> a[j][k] + b[j][k]]]

\* a / b, element-wise, on integer matrices
MatDiv(a, b) ==
  [j \in 1..Len(a) |-> [k \in 1..Len(a[j]) |-> Div(a[j][k], b[j][k])]]

\* np.nansum(m, axis=1) on an integer matrix
rowsum(m) == [j \in 1..Len(m) |-> Sum(m[j])]

_inbound(pairs) ==
  MatDiv(pairs.mr.values, MatAdd(pairs.mr.values, pairs.mm.values))

\* outbound over the records missing k instead of those observed in j
_outbound_over_missing(pairs) ==
  MatDiv(pairs.rm.values, MatAdd(pairs.rm.values, pairs.mm.values))

\* outbound with mr in the place of rm
_outbound_mr(pairs) ==
  MatDiv(pairs.mr.values, MatAdd(pairs.mr.values, pairs.rr.values))

_outbound(pairs) ==
  MatDiv(pairs.rm.values, MatAdd(pairs.rm.values, pairs.rr.values))

_influx(pairs) ==
  LET num == rowsum(pairs.mr.values)
      denom == rowsum(MatAdd(pairs.mr.values, pairs.rr.values))
  IN [j \in 1..Len(num) |-> Div(num[j], denom[j])]

_outflux(pairs) ==
  LET num == rowsum(pairs.rm.values)
      denom == rowsum(MatAdd(pairs.rm.values, pairs.mm.values))
  IN [j \in 1..Len(num) |-> Div(num[j], denom[j])]

\* func(pairs), for the helper that func names
apply_func(func, pairs) ==
  CASE func = "_inbound" -> _inbound(pairs)
    [] func = "_outbound" -> _outbound(pairs)
    [] func = "_influx" -> _influx(pairs)
    [] func = "_outflux" -> _outflux(pairs)

\* an exception raised by md_pairs leaves get_stat_for before func runs
get_stat_for(func, d) ==
  LET pairs == md_pairs(d, None)
  IN IF pairs.raised # "none" THEN pairs
     ELSE Returned(apply_func(func, pairs.value))

inbound(d, cols) ==
  LET inbound_coeff == get_stat_for("_inbound", d)
  IN IF inbound_coeff.raised # "none" THEN inbound_coeff
     ELSE Returned(_pattern_output(inbound_coeff.value, cols, TRUE))

outbound(d, cols) ==
  LET outbound_coeff == get_stat_for("_outbound", d)
  IN IF outbound_coeff.raised # "none" THEN outbound_coeff
     ELSE Returned(_pattern_output(outbound_coeff.value, cols, TRUE))

\* arr.reshape(1, p)
reshape1(arr) == <<arr>>

influx(d, cols) ==
  LET influx_coeff == get_stat_for("_influx", d)
  IN IF influx_coeff.raised # "none" THEN influx_coeff
     ELSE Returned(_pattern_output(reshape1(influx_coeff.value), cols, FALSE))

outflux(d, cols) ==
  LET outflux_coeff == get_stat_for("_outflux", d)
  IN IF outflux_coeff.raised # "none" THEN outflux_coeff
     ELSE Returned(_pattern_output(reshape1(outflux_coeff.value), cols, FALSE))

\* ---- flux -------------------------------------------------------------------
\* the plain mean over all p entries
row_mean_over_len(row) == FDivInt(nansum(row), Len(row))

\* lambda row: np.nansum(row)/(len(row) - 1)
row_mean(row) == FDivInt(nansum(row), Len(row) - 1)

\* np.mean(np.logical_not(_is_null(data)), axis=0)
pobs_of(d) ==
  LET obs == colsum(int_ln(_is_null(d)))
  IN [j \in 1..Len(obs) |-> Div(obs[j], nrows(d))]

\* flux on the pair counts taken without md_pairs' decorator
flux_unchecked(d, cols) ==
  LET pairs == Returned(md_pairs_body(d, None))
      inb == _inbound(pairs.value)
      outb == _outbound(pairs.value)
  IN Returned([index |-> cols,
               pobs |-> pobs_of(d),
               influx |-> _influx(pairs.value),
               outflux |-> _outflux(pairs.value),
               ainb |-> [j \in 1..Len(inb) |-> row_mean(inb[j])],
               aout |-> [j \in 1..Len(outb) |-> row_mean(outb[j])]])

flux(d, cols) ==
  LET pairs == md_pairs(d, None)
  IN IF pairs.raised # "none" THEN pairs
     ELSE LET inb == _inbound(pairs.value)
              outb == _outbound(pairs.value)
          IN Returned([index |-> cols,
                       pobs |-> pobs_of(d),
                       influx |-> _influx(pairs.value),
                       outflux |-> _outflux(pairs.value),
                       ainb |-> [j \in 1..Len(inb) |-> row_mean(inb[j])],
                       aout |-> [j \in 1..Len(outb) |-> row_mean(outb[j])]])

\* ---- state machine ------------------------------------------------------
Init ==
  /\ data \in Datasets
  /\ call = "none"
  /\ ret = [raised |-> "none"]

Call_md_pairs ==
  \E cols \in {None, ColNames(ncols(data))} :
    /\ call = "none"
    /\ call' = "md_pairs"
    /\ ret' = md_pairs(data, cols)
    /\ UNCHANGED data

Call_md_pattern ==
  \E cols \in {ColNames(ncols(data)), ColNames(ncols(data) + 1)} :
    \E order \in argsort(colsum(_is_null(data))) :
      /\ call = "none"
    /\ call' = "md_pattern"
      /\ ret' = md_pattern(data, cols, order)
      /\ UNCHANGED data

Call_inbound ==
  \E cols \in {None, ColNames(ncols(data))} :
    /\ call = "none"
    /\ call' = "inbound"
    /\ ret' = inbound(data, cols)
    /\ UNCHANGED data

Call_outbound ==
  \E cols \in {None, ColNames(ncols(data))} :
    /\ call = "none"
    /\ call' = "outbound"
    /\ ret' = outbound(data, cols)
    /\ UNCHANGED data

Call_influx ==
  \E cols \in {None, ColNames(ncols(data))} :
    /\ call = "none"
    /\ call' = "influx"
    /\ ret' = influx(data, cols)
    /\ UNCHANGED data

Call_outflux ==
  \E cols \in {None, ColNames(ncols(data))} :
    /\ call = "none"
    /\ call' = "outflux"
    /\ ret' = outflux(data, cols)
    /\ UNCHANGED data

Call_flux ==
  /\ call = "none"
  /\ call' = "flux"
  /\ ret' = flux(data, ColNames(ncols(data)))
  /\ UNCHANGED data

Next ==
  \/ Call_md_pairs
  \/ Call_md_pattern
  \/ Call_inbound
  \/ Call_outbound
  \/ Call_influx
  \/ Call_outflux
  \/ Call_flux

Spec == Init /\ [][Next]_vars

\* ---- the dataset, as the properties below read it -------------------------
N == nrows(data)

P == ncols(data)

Missing(i, j) == data[i][j] = "NA"

Observed(i, j) == data[i][j] # "NA"

FullyObservedVar(j) == \A i \in 1..N : Observed(i, j)

FullyMissingVar(j) == \A i \in 1..N : Missing(i, j)

FullyObservedData == \A j \in 1..P : FullyObservedVar(j)

FullyMissingData == \A j \in 1..P : FullyMissingVar(j)

ReturnedFrom(f) == call = f /\ ret.raised = "none"

\* C1: the four matrices of md_pairs partition the rows for every ordered
\* pair of variables: rr[j,k] + rm[j,k] + mr[j,k] + mm[j,k] = n, also for
\* j = k.
C1_PairsPartitionRows ==
  ReturnedFrom("md_pairs") =>
    \A j, k \in 1..P :
      ret.value.rr.values[j][k] + ret.value.rm.values[j][k]
        + ret.value.mr.values[j][k] + ret.value.mm.values[j][k] = N

\* md_pairs has returned for a dataset in which all four kinds of pair occur
\* between distinct variables
C1_Witness ==
  /\ ReturnedFrom("md_pairs")
  /\ \E j, k \in 1..P :
       /\ j # k
       /\ ret.value.rm.values[j][k] > 0
       /\ ret.value.mr.values[j][k] > 0
       /\ ret.value.mm.values[j][k] > 0
  /\ \E j, k \in 1..P : j # k /\ ret.value.rr.values[j][k] > 0

\* the label of the table's i-th variable column
LabelAt(i) == ret.value.columns[i + 1]

\* the missing total the table shows for its i-th variable column
ShownMissing(i) ==
  Sum([g \in 1..Len(ret.value.rows) |->
         ret.value.rows[g].count * (1 - ret.value.rows[g].vars[i])])

\* C2: in the table of md_pattern(D, cols) the variable columns ascend by
\* missing total and every label still names its own variable: the column
\* labelled cols[i] holds the observed(1)/missing(0) indicator of dataset
\* column i, so every table row counts the dataset rows that show its
\* pattern under the labels.
C2_LabelsFollowColumns ==
  ReturnedFrom("md_pattern") =>
    /\ \A i \in 1..P : LabelAt(i) = ColNames(P)[i]
    /\ \A i, j \in 1..P : i < j => ShownMissing(i) <= ShownMissing(j)
    /\ \A g \in 1..Len(ret.value.rows) :
         ret.value.rows[g].count =
           Cardinality({r \in 1..N : \A i \in 1..P :
              ret.value.rows[g].vars[i] = (IF Observed(r, i) THEN 1 ELSE 0)})

\* C3: in every row of the table of md_pattern, nmis is the number of
\* missing entries of the row's pattern, p minus the number of 1s in the
\* variable columns, whatever the row's count.
C3_NmisIsPatternMissingCount ==
  ReturnedFrom("md_pattern") =>
    \A g \in 1..Len(ret.value.rows) :
      ret.value.rows[g].nmis = P - Sum(ret.value.rows[g].vars)

\* a pattern with a missing entry that several dataset rows share
C3_Witness ==
  /\ ReturnedFrom("md_pattern")
  /\ \E g \in 1..Len(ret.value.rows) :
       /\ ret.value.rows[g].count >= 2
       /\ ret.value.rows[g].nmis >= 1
       /\ ret.value.rows[g].nmis < P

\* the observed(1)/missing(0) pattern of dataset row r, columns in order o
RowPattern(r, o) == [i \in 1..P |-> IF Observed(r, o[i]) THEN 1 ELSE 0]

\* C4: md_pattern returns exactly one row per distinct missingness pattern
\* of the dataset, no two rows share a pattern vector, every count is the
\* number of dataset rows with that pattern (in the column order of the
\* table), and the counts sum to n.
C4_OneRowPerPattern ==
  ReturnedFrom("md_pattern") =>
    LET rows == ret.value.rows
    IN /\ Len(rows) = Cardinality({data[r] : r \in 1..N})
       /\ \A g, h \in 1..Len(rows) : rows[g].vars = rows[h].vars => g = h
       /\ \E o \in argsort(colsum(_is_null(data))) :
            \A g \in 1..Len(rows) :
              rows[g].count =
                Cardinality({r \in 1..N : RowPattern(r, o) = rows[g].vars})
       /\ Sum([g \in 1..Len(rows) |-> rows[g].count]) = N

\* several patterns, one of them shared by several dataset rows
C4_Witness ==
  /\ ReturnedFrom("md_pattern")
  /\ Len(ret.value.rows) >= 2
  /\ \E g \in 1..Len(ret.value.rows) : ret.value.rows[g].count >= 2

\* C5: influx(D)[j] is 0 when variable j is fully observed and 1 when it is
\* fully missing; so it is 1 for every variable of a fully-missing dataset.
C5_InfluxDomain ==
  ReturnedFrom("influx") =>
    \A j \in 1..P :
      /\ FullyObservedVar(j) => ret.value.values[1][j] = Zero
      /\ FullyMissingVar(j) => ret.value.values[1][j] = One

\* C6: outflux(D)[j] is 1 when variable j is fully observed and 0 when it
\* is fully missing; so it is 1 for every variable of a fully-observed
\* dataset.
C6_OutfluxDomain ==
  ReturnedFrom("outflux") =>
    \A j \in 1..P :
      /\ FullyObservedVar(j) => ret.value.values[1][j] = One
      /\ FullyMissingVar(j) => ret.value.values[1][j] = Zero

\* C7 (as stated): for a fully-observed dataset with p >= 2 neither inbound
\* nor outbound raises and every entry of both is NaN.
C7_BothNaNWhenFullyObserved ==
  (FullyObservedData /\ P >= 2 /\ call \in {"inbound", "outbound"}) =>
    /\ ret.raised = "none"
    /\ \A j, k \in 1..P : IsNaN(ret.value.values[j][k])

\* C7 (amended): for a fully-observed dataset with p >= 2 and at least one
\* row neither inbound nor outbound raises; every entry of inbound is NaN
\* and every entry of outbound is 0.
C7_InboundNaNOutboundZero ==
  (FullyObservedData /\ P >= 2 /\ call \in {"inbound", "outbound"}) =>
    /\ ret.raised = "none"
    /\ call = "inbound" => \A j, k \in 1..P : IsNaN(ret.value.values[j][k])
    /\ call = "outbound" => \A j, k \in 1..P : ret.value.values[j][k] = Zero

\* outbound has returned for a fully-observed dataset of several rows
C7_Witness ==
  /\ FullyObservedData
  /\ P >= 2
  /\ N >= 2
  /\ ReturnedFrom("outbound")

C9_SingleColumnRaises ==
  (P = 1 /\ call # "none") =>
    /\ ret.raised = "DimensionError"
    /\ DOMAIN ret = {"raised"}

\* flux has been called on a single-column dataset
C9_Witness ==
  /\ P = 1
  /\ call = "flux"
  /\ ret.raised = "DimensionError"

\* sum over k # j of row[k], NaN counted as zero
RECURSIVE OffDiagSum(_, _, _)
OffDiagSum(row, j, k) ==
  IF k = 0 THEN Zero
  ELSE FAdd(IF k = j \/ IsNaN(row[k]) THEN Zero ELSE row[k],
            OffDiagSum(row, j, k - 1))

\* C10: the self-pair entries inbound[j,j] and outbound[j,j] are 0 or NaN,
\* so ainb[j] (aout[j]) of flux is the sum over k # j of inbound[j,k]
\* (outbound[j,k]), NaN counted as 0, divided by p - 1, and lies in [0,1].
C10_SelfPairsNeutral ==
  /\ call \in {"inbound", "outbound"} /\ ret.raised = "none" =>
       \A j \in 1..P : ret.value.values[j][j] \in {Zero, NaN}
  /\ ReturnedFrom("flux") =>
       LET inb == inbound(data, None).value.values
           outb == outbound(data, None).value.values
       IN \A j \in 1..P :
            /\ ret.value.ainb[j] = FDivInt(OffDiagSum(inb[j], j, P), P - 1)
            /\ ret.value.aout[j] = FDivInt(OffDiagSum(outb[j], j, P), P - 1)
            /\ FLeq(Zero, ret.value.ainb[j]) /\ FLeq(ret.value.ainb[j], One)
            /\ FLeq(Zero, ret.value.aout[j]) /\ FLeq(ret.value.aout[j], One)

\* flux has returned averages strictly between 0 and 1 for some variable
C10_Witness ==
  /\ ReturnedFrom("flux")
  /\ P >= 3
  /\ \E j \in 1..P :
       /\ ret.value.ainb[j].num > 0 /\ ret.value.ainb[j].den > 1
       /\ ret.value.aout[j].num > 0 /\ ret.value.aout[j].den > 1

====
